---- MODULE Spec2Model ----
(***************************************************************************)
(* GoogLeNet (Inception-v1) of src/googlenet/model.py.                     *)
(*                                                                         *)
(* A tensor is modelled by what the graph fixes of it:                     *)
(*   shape  - its static shape, <<n, h, w, c>> or <<n, units>>, where n is *)
(*            the number of examples fed for the placeholder's None        *)
(*   chain  - the operations that produced it since the last placeholder   *)
(*            or concatenation, each <<name, parameters>>                  *)
(*   parts  - for a concatenation, the (chain, channels) of each operand   *)
(*            in channel order; <<>> for every other tensor                *)
(* Three specifications: SpecInception applies GoogLeNet.inception to      *)
(* bounded inputs, SpecGraph builds the forward pass of run() layer by     *)
(* layer, Spec runs the session part of run() (training and evaluation).   *)
(* The print calls of run() change no state and are left out.              *)
(***************************************************************************)
EXTENDS Integers, Sequences, FiniteSets, TLC

VARIABLES
    \* SpecInception
    ipc, inputs, sizes, outputs,
    \* SpecGraph
    gpc, num_classes, fed, t,
    \* Spec
    pc, num_epochs, batch_size, len_train, i, start, log, closed

vars == <<ipc, inputs, sizes, outputs, gpc, num_classes, fed, t,
          pc, num_epochs, batch_size, len_train, i, start, log, closed>>

inceptionVars == <<ipc, inputs, sizes, outputs>>
graphVars == <<gpc, num_classes, fed, t>>
trainVars == <<pc, num_epochs, batch_size, len_train, i, start, log, closed>>

---------------------------------------------------------------------------
(* Bounds of the model *)

MaxDim == 3
MaxChannels == 2
MaxFilters == 2
MaxExamples == 2
MaxFed == 4
MaxClasses == 4
MaxTrain == 4
MaxBatchSize == 3
MaxEpochs == 2

---------------------------------------------------------------------------
(* The tensor library, as far as shapes go *)

Min(a, b) == IF a < b THEN a ELSE b

CeilDiv(a, b) == (a + b - 1) \div b

\* Output length of one spatial dimension of a convolution or a pooling:
\* 'same' pads so that only the stride shrinks it, 'valid' first loses k - 1.
\* A result below 1 stands for the library's refusal to build the operation.
\* (OutSizeValid: the padding argument is ignored and nothing is padded)
OutSizeValid(size, k, s, padding) ==
    CeilDiv(size - k + 1, s)

OutSize(size, k, s, padding) ==
    IF padding = "same" THEN CeilDiv(size, s) ELSE CeilDiv(size - k + 1, s)

Tensor(shape, chain, parts) == [shape |-> shape, chain |-> chain, parts |-> parts]

placeholder(shape) == Tensor(shape, <<>>, <<>>)

Spatial(x, k, s, padding, c, name) ==
    Tensor(<<x.shape[1],
             OutSize(x.shape[2], k[1], s[1], padding),
             OutSize(x.shape[3], k[2], s[2], padding),
             c>>,
           Append(x.chain, <<name, k>>), <<>>)

conv2d(x, filters, kernel_size, strides, padding) ==
    Spatial(x, kernel_size, strides, padding, filters, "conv2d")

\* (the strides argument is ignored and the window moves by one)
max_pooling2dUnitStrides(x, pool_size, strides, padding) ==
    Spatial(x, pool_size, <<1, 1>>, padding, x.shape[4], "max_pooling2d")

max_pooling2d(x, pool_size, strides, padding) ==
    Spatial(x, pool_size, strides, padding, x.shape[4], "max_pooling2d")

average_pooling2d(x, pool_size, strides, padding) ==
    Spatial(x, pool_size, strides, padding, x.shape[4], "average_pooling2d")

local_response_normalization(x) ==
    Tensor(x.shape, Append(x.chain, <<"local_response_normalization", <<>>>>), <<>>)

flatten(x) ==
    Tensor(<<x.shape[1], x.shape[2] * x.shape[3] * x.shape[4]>>,
           Append(x.chain, <<"flatten", <<>>>>), <<>>)

dense(x, units) ==
    Tensor(<<x.shape[1], units>>, Append(x.chain, <<"dense", <<units>>>>), <<>>)

dropout(x) ==
    Tensor(x.shape, Append(x.chain, <<"dropout", <<>>>>), <<>>)

RECURSIVE SumChannels(_)
SumChannels(xs) ==
    IF xs = <<>> THEN 0 ELSE xs[1].shape[4] + SumChannels(Tail(xs))

\* tf.concat(xs, 3): the operands agree on every axis but the channel one,
\* and their channels follow each other in the order of xs.  Operands that
\* disagree make the library raise; that is the shape <<>>.
concat3(xs) ==
    IF \A k \in 1..Len(xs) : \A a \in 1..3 : xs[k].shape[a] = xs[1].shape[a]
    THEN Tensor(<<xs[1].shape[1], xs[1].shape[2], xs[1].shape[3], SumChannels(xs)>>,
                << <<"concat", [k \in 1..Len(xs) |-> xs[k].shape[4]]>> >>,
                [k \in 1..Len(xs) |-> [chain |-> xs[k].chain, c |-> xs[k].shape[4]]])
    ELSE Tensor(<<>>, << <<"concat", <<>>>> >>, <<>>)

---------------------------------------------------------------------------
(* GoogLeNet.inception *)

\* strides=(1, 1), the default of conv2d and the strides=1 of the pooling path
UnitStrides == <<1, 1>>

\* (the 3 * 3 path's reduction reaches the concatenation instead of its convolution)
inceptionReduceConcat(x, conv_11_size, conv_33_reduce_size, conv_33_size, conv_56_reduce_size, conv_56_size, pool_proj_size) ==
    LET conv_11 == conv2d(x, conv_11_size, <<1, 1>>, UnitStrides, "same")
        conv_33_reduce == conv2d(x, conv_33_reduce_size, <<1, 1>>, UnitStrides, "same")
        conv_33 == conv2d(conv_33_reduce, conv_33_size, <<3, 3>>, UnitStrides, "same")
        conv_56_reduce == conv2d(x, conv_56_reduce_size, <<1, 1>>, UnitStrides, "same")
        conv_56 == conv2d(conv_56_reduce, conv_56_size, <<5, 5>>, UnitStrides, "same")
        pool == max_pooling2d(x, <<3, 3>>, UnitStrides, "same")
        conv_pool == conv2d(pool, pool_proj_size, <<1, 1>>, UnitStrides, "same")
    IN  concat3(<<conv_11, conv_33_reduce, conv_56, conv_pool>>)

inception(x, conv_11_size, conv_33_reduce_size, conv_33_size, conv_56_reduce_size, conv_56_size, pool_proj_size) ==
    LET conv_11 == conv2d(x, conv_11_size, <<1, 1>>, UnitStrides, "same")
        conv_33_reduce == conv2d(x, conv_33_reduce_size, <<1, 1>>, UnitStrides, "same")
        conv_33 == conv2d(conv_33_reduce, conv_33_size, <<3, 3>>, UnitStrides, "same")
        conv_56_reduce == conv2d(x, conv_56_reduce_size, <<1, 1>>, UnitStrides, "same")
        conv_56 == conv2d(conv_56_reduce, conv_56_size, <<5, 5>>, UnitStrides, "same")
        pool == max_pooling2d(x, <<3, 3>>, UnitStrides, "same")
        conv_pool == conv2d(pool, pool_proj_size, <<1, 1>>, UnitStrides, "same")
    IN  concat3(<<conv_11, conv_33, conv_56, conv_pool>>)

---------------------------------------------------------------------------
(* SpecInception: inception applied to every bounded input *)

IdleGraph ==
    /\ gpc = "idle" /\ num_classes = 1 /\ fed = 1 /\ t = <<>>

IdleTrain ==
    /\ pc = "idle" /\ num_epochs = 0 /\ batch_size = 1 /\ len_train = 0
    /\ i = 0 /\ start = 0 /\ log = <<>> /\ closed = FALSE

IdleInception ==
    /\ ipc = "idle" /\ inputs = placeholder(<<1, 1, 1, 1>>)
    /\ sizes = <<1, 1, 1, 1, 1, 1>> /\ outputs = placeholder(<<>>)

\* The caller's tensor is a placeholder or the result of an earlier operation.
InputChains == {<<>>, << <<"max_pooling2d", <<3, 3>>>> >>}

InitInception ==
    /\ ipc = "call"
    /\ \E n \in 1..MaxExamples, h \in 1..MaxDim, w \in 1..MaxDim, c \in 1..MaxChannels :
           \E chain \in InputChains : inputs = Tensor(<<n, h, w, c>>, chain, <<>>)
    /\ sizes \in [1..6 -> 1..MaxFilters]
    /\ outputs = placeholder(<<>>)
    /\ IdleGraph /\ IdleTrain

CallInception ==
    /\ ipc = "call"
    /\ outputs' = inception(inputs, sizes[1], sizes[2], sizes[3], sizes[4], sizes[5], sizes[6])
    /\ ipc' = "returned"
    /\ UNCHANGED <<inputs, sizes, graphVars, trainVars>>

NextInception == CallInception

SpecInception == InitInception /\ [][NextInception]_vars

\* C1: inception returns the channel-axis concatenation of its four paths in
\* the order [1x1 conv, 3x3 conv, 5x5 conv, pool projection]: the result keeps
\* the input's N, H and W, has conv_11_size + conv_33_size + conv_56_size +
\* pool_proj_size channels, and the two reduce sizes are not among them.
C1_InceptionConcat ==
    ipc = "returned" =>
        LET conv1 == <<"conv2d", <<1, 1>>>>
            conv3 == <<"conv2d", <<3, 3>>>>
            conv5 == <<"conv2d", <<5, 5>>>>
            pool3 == <<"max_pooling2d", <<3, 3>>>>
        IN  /\ outputs.shape = <<inputs.shape[1], inputs.shape[2], inputs.shape[3],
                                 sizes[1] + sizes[3] + sizes[5] + sizes[6]>>
            /\ outputs.parts =
                  << [chain |-> inputs.chain \o <<conv1>>, c |-> sizes[1]],
                     [chain |-> inputs.chain \o <<conv1, conv3>>, c |-> sizes[3]],
                     [chain |-> inputs.chain \o <<conv1, conv5>>, c |-> sizes[5]],
                     [chain |-> inputs.chain \o <<pool3, conv1>>, c |-> sizes[6]] >>

\* An inception call has returned for a non-square input with an operation
\* before it, and each reduce size differs from the size of its path.
C1_Witness ==
    /\ ipc = "returned"
    /\ inputs.shape[2] # inputs.shape[3]
    /\ inputs.chain # <<>>
    /\ sizes[2] # sizes[3]
    /\ sizes[4] # sizes[5]
    /\ sizes[1] # sizes[6]
    /\ Len(outputs.shape) = 4

---------------------------------------------------------------------------
(* GoogLeNet.auxiliary and the forward pass of GoogLeNet.run *)

\* strides=[2, 2]
TwoStrides == <<2, 2>>

\* (the last dense layer keeps the 1024 units of the one before it)
auxiliaryWide(x) ==
    LET pool == average_pooling2d(x, <<5, 5>>, <<3, 3>>, "same")
        conv == conv2d(pool, 128, <<1, 1>>, UnitStrides, "valid")
        flat == flatten(conv)
        full == dense(flat, 1024)
        drop == dropout(full)
    IN  dense(drop, 1024)

auxiliary(x) ==
    LET pool == average_pooling2d(x, <<5, 5>>, <<3, 3>>, "same")
        conv == conv2d(pool, 128, <<1, 1>>, UnitStrides, "valid")
        flat == flatten(conv)
        full == dense(flat, 1024)
        drop == dropout(full)
    IN  dense(drop, num_classes)

\* After GoogLeNet.__init__: the two placeholders, for a feed of `fed` examples
\* and a label set whose second dimension is num_classes.
InitGraph ==
    /\ gpc = "layer_1"
    /\ num_classes \in 1..MaxClasses
    /\ fed \in 1..MaxFed
    /\ t = [X |-> placeholder(<<fed, 224, 224, 3>>),
            y |-> placeholder(<<fed, num_classes>>)]
    /\ IdleInception /\ IdleTrain

Layer1 ==
    /\ gpc = "layer_1"
    /\ LET conv_1 == conv2d(t.X, 64, <<7, 7>>, TwoStrides, "same")
           pool_1 == max_pooling2d(conv_1, <<3, 3>>, TwoStrides, "same")
           norm_1 == local_response_normalization(pool_1)
       IN  t' = [conv_1 |-> conv_1, pool_1 |-> pool_1, norm_1 |-> norm_1] @@ t
    /\ gpc' = "layer_2"
    /\ UNCHANGED <<num_classes, fed, inceptionVars, trainVars>>

Layer2 ==
    /\ gpc = "layer_2"
    /\ LET conv_2a == conv2d(t.norm_1, 64, <<1, 1>>, UnitStrides, "same")
           conv_2b == conv2d(conv_2a, 192, <<3, 3>>, UnitStrides, "same")
           norm_2 == local_response_normalization(conv_2b)
           pool_2 == max_pooling2d(norm_2, <<3, 3>>, TwoStrides, "same")
       IN  t' = [conv_2a |-> conv_2a, conv_2b |-> conv_2b,
                 norm_2 |-> norm_2, pool_2 |-> pool_2] @@ t
    /\ gpc' = "layer_3"
    /\ UNCHANGED <<num_classes, fed, inceptionVars, trainVars>>

Layer3 ==
    /\ gpc = "layer_3"
    /\ LET inception_3a == inception(t.pool_2, 64, 96, 128, 16, 32, 32)
           inception_3b == inception(inception_3a, 128, 128, 192, 32, 96, 64)
           pool_3 == max_pooling2d(inception_3b, <<3, 3>>, TwoStrides, "same")
       IN  t' = [inception_3a |-> inception_3a, inception_3b |-> inception_3b,
                 pool_3 |-> pool_3] @@ t
    /\ gpc' = "layer_4_1"
    /\ UNCHANGED <<num_classes, fed, inceptionVars, trainVars>>

Layer41 ==
    /\ gpc = "layer_4_1"
    /\ LET inception_4a == inception(t.pool_3, 192, 96, 208, 16, 48, 64)
           inception_4b == inception(inception_4a, 160, 112, 224, 24, 64, 64)
           inception_4c == inception(inception_4b, 128, 128, 256, 24, 64, 64)
           inception_4d == inception(inception_4c, 112, 144, 288, 32, 64, 64)
           inception_4e == inception(inception_4d, 256, 160, 320, 32, 128, 128)
           pool_4 == max_pooling2d(inception_4e, <<3, 3>>, TwoStrides, "same")
       IN  t' = [inception_4a |-> inception_4a, inception_4b |-> inception_4b,
                 inception_4c |-> inception_4c, inception_4d |-> inception_4d,
                 inception_4e |-> inception_4e, pool_4 |-> pool_4] @@ t
    /\ gpc' = "layer_4_2"
    /\ UNCHANGED <<num_classes, fed, inceptionVars, trainVars>>

Layer42 ==
    /\ gpc = "layer_4_2"
    /\ t' = [auxiliary_1 |-> auxiliary(t.inception_4a),
             auxiliary_2 |-> auxiliary(t.inception_4d)] @@ t
    /\ gpc' = "layer_5"
    /\ UNCHANGED <<num_classes, fed, inceptionVars, trainVars>>

Layer5 ==
    /\ gpc = "layer_5"
    /\ LET inception_5a == inception(t.pool_4, 256, 160, 320, 32, 128, 128)
           inception_5b == inception(inception_5a, 384, 192, 384, 48, 128, 128)
           pool_5 == average_pooling2d(inception_5b, <<7, 7>>, UnitStrides, "valid")
       IN  t' = [inception_5a |-> inception_5a, inception_5b |-> inception_5b,
                 pool_5 |-> pool_5] @@ t
    /\ gpc' = "layer_6"
    /\ UNCHANGED <<num_classes, fed, inceptionVars, trainVars>>

Layer6 ==
    /\ gpc = "layer_6"
    /\ LET flat_5 == flatten(t.pool_5)
           drop_6 == dropout(flat_5)
           linear == dense(drop_6, num_classes)
       IN  t' = [flat_5 |-> flat_5, drop_6 |-> drop_6, linear |-> linear] @@ t
    /\ gpc' = "built"
    /\ UNCHANGED <<num_classes, fed, inceptionVars, trainVars>>

NextGraph ==
    \/ Layer1 \/ Layer2 \/ Layer3 \/ Layer41 \/ Layer42 \/ Layer5 \/ Layer6

SpecGraph == InitGraph /\ [][NextGraph]_vars

\* The per-example shape of a built tensor, and whether it is built.
Built(name) == name \in DOMAIN t

Is(name, h, w, c) == t[name].shape = <<fed, h, w, c>>

\* The tensor `out` is computed from the tensor `inp`: an inception's first
\* path is a 1 * 1 convolution of it, any other operation extends its chain.
Wired(out, inp) ==
    IF t[out].parts # <<>>
    THEN t[out].parts[1].chain = Append(t[inp].chain, <<"conv2d", <<1, 1>>>>)
    ELSE /\ Len(t[out].chain) = Len(t[inp].chain) + 1
         /\ SubSeq(t[out].chain, 1, Len(t[inp].chain)) = t[inp].chain

\* The stages of the docstring of run() from the 2nd layer on:
\* <<stage, its input stage, input h, w, c, output h, w, c>>.
DocStages ==
    << <<"conv_2a", "norm_1", 56, 56, 64, 56, 56, 64>>,
       <<"conv_2b", "conv_2a", 56, 56, 64, 56, 56, 192>>,
       <<"norm_2", "conv_2b", 56, 56, 192, 56, 56, 192>>,
       <<"pool_2", "norm_2", 56, 56, 192, 28, 28, 192>>,
       <<"inception_3a", "pool_2", 28, 28, 192, 28, 28, 256>>,
       <<"inception_3b", "inception_3a", 28, 28, 256, 28, 28, 480>>,
       <<"pool_3", "inception_3b", 28, 28, 480, 14, 14, 480>>,
       <<"inception_4a", "pool_3", 14, 14, 480, 14, 14, 512>>,
       <<"inception_4b", "inception_4a", 14, 14, 512, 14, 14, 512>>,
       <<"inception_4c", "inception_4b", 14, 14, 512, 14, 14, 512>>,
       <<"inception_4d", "inception_4c", 14, 14, 512, 14, 14, 528>>,
       <<"inception_4e", "inception_4d", 14, 14, 528, 14, 14, 832>>,
       <<"pool_4", "inception_4e", 14, 14, 832, 7, 7, 832>>,
       <<"inception_5a", "pool_4", 7, 7, 832, 7, 7, 832>>,
       <<"inception_5b", "inception_5a", 7, 7, 832, 7, 7, 1024>>,
       <<"pool_5", "inception_5b", 7, 7, 1024, 1, 1, 1024>> >>

\* C2: from the 2nd layer's sub-steps on, every built stage of the forward
\* pass has the per-example shape the docstring of run() lists for it, is
\* computed from the stage the docstring wires it to, and that stage has the
\* shape the docstring lists as the input.
C2_StageShapes ==
    \A k \in 1..Len(DocStages) :
        LET row == DocStages[k] IN
        Built(row[1]) =>
            /\ Built(row[2])
            /\ Wired(row[1], row[2])
            /\ Is(row[2], row[3], row[4], row[5])
            /\ Is(row[1], row[6], row[7], row[8])

\* The whole forward pass is built, so every stage of DocStages is.
C2_Witness ==
    /\ gpc = "built"
    /\ \A k \in 1..Len(DocStages) : Built(DocStages[k][1])
    /\ fed > 1

---------------------------------------------------------------------------
(* The session part of GoogLeNet.run: training, validation, test, close *)

\* log holds one entry per session call, in the order of the calls:
\*   op     "init", "train", "eval" or "close"
\*   epoch  the epoch i of a train step or a validation evaluation, else -1
\*   Xsrc, ysrc   the arrays fed to self.X and self.y ("" when nothing is fed)
\*   X, y   the index range <<lo, hi>> (lo included, hi excluded) of the rows
\*          of a training batch; <<>> when the whole array is fed
\*   ok     FALSE when the call raised
Entry(op, epoch, Xsrc, ysrc, X, y, ok) ==
    [op |-> op, epoch |-> epoch, Xsrc |-> Xsrc, ysrc |-> ysrc, X |-> X, y |-> y, ok |-> ok]

\* a[lo:hi] of an array of len rows, for 0 <= lo <= hi: the rows lo .. hi - 1
\* that exist.
Slice(len, lo, hi) == <<Min(lo, len), Min(hi, len)>>

\* (end = start + batch_size - 1: the slice bound taken as inclusive)
BatchEndInclusive(s) == s + batch_size - 1

\* end = start + self.batch_size
BatchEnd(s) == s + batch_size

TrainEntry(ok) ==
    Entry("train", i, "X_train", "y_train",
          Slice(len_train, start, BatchEnd(start)),
          Slice(len_train, start, BatchEnd(start)), ok)

ValidationEntry(ok) == Entry("eval", i, "X_validation", "y_validation", <<>>, <<>>, ok)

TestEntry(ok) == Entry("eval", -1, "X_test", "y_test", <<>>, <<>>, ok)

\* (the error is caught and run() goes on to close the session)
RaiseSwallowed(entry) ==
    /\ log' = Append(log, entry)
    /\ pc' = "close"
    /\ UNCHANGED <<i, start, closed>>

\* A session call raises: run() has no handler, the error leaves run().
Raise(entry) ==
    /\ log' = Append(log, entry)
    /\ pc' = "raised"
    /\ UNCHANGED <<i, start, closed>>

Init ==
    /\ pc = "initializer"
    /\ num_epochs \in 0..MaxEpochs
    /\ batch_size \in 1..MaxBatchSize
    /\ len_train \in 0..MaxTrain
    /\ i = 0 /\ start = 0 /\ log = <<>> /\ closed = FALSE
    /\ IdleInception /\ IdleGraph

\* sess.run(tf.global_variables_initializer())
GlobalVariablesInitializer ==
    /\ pc = "initializer"
    /\ \E ok \in BOOLEAN :
         IF ok
         THEN /\ log' = Append(log, Entry("init", -1, "", "", <<>>, <<>>, TRUE))
              /\ pc' = "for_i"
              /\ i' = 0
              /\ UNCHANGED <<start, closed>>
         ELSE Raise(Entry("init", -1, "", "", <<>>, <<>>, FALSE))
    /\ UNCHANGED <<num_epochs, batch_size, len_train, inceptionVars, graphVars>>

\* for i in range(self.num_epochs): the next epoch starts
EpochBegin ==
    /\ pc = "for_i"
    /\ i < num_epochs
    /\ start' = 0
    /\ pc' = "for_start"
    /\ UNCHANGED <<i, log, closed, num_epochs, batch_size, len_train, inceptionVars, graphVars>>

\* (the validation evaluation sits inside the batch loop)
TrainStepAndValidate ==
    /\ pc = "for_start"
    /\ start < len_train
    /\ log' = log \o <<TrainEntry(TRUE), ValidationEntry(TRUE)>>
    /\ start' = start + batch_size
    /\ UNCHANGED <<pc, i, closed>>
    /\ UNCHANGED <<num_epochs, batch_size, len_train, inceptionVars, graphVars>>

\* for start in range(0, len(X_train), self.batch_size): one train step
TrainStep ==
    /\ pc = "for_start"
    /\ start < len_train
    /\ \E ok \in BOOLEAN :
         IF ok
         THEN /\ log' = Append(log, TrainEntry(TRUE))
              /\ start' = start + batch_size
              /\ UNCHANGED <<pc, i, closed>>
         ELSE Raise(TrainEntry(FALSE))
    /\ UNCHANGED <<num_epochs, batch_size, len_train, inceptionVars, graphVars>>

\* the batches of epoch i are exhausted: loss and accuracy on the validation set
Validate ==
    /\ pc = "for_start"
    /\ start >= len_train
    /\ \E ok \in BOOLEAN :
         IF ok
         THEN /\ log' = Append(log, ValidationEntry(TRUE))
              /\ i' = i + 1
              /\ pc' = "for_i"
              /\ UNCHANGED <<start, closed>>
         ELSE Raise(ValidationEntry(FALSE))
    /\ UNCHANGED <<num_epochs, batch_size, len_train, inceptionVars, graphVars>>

\* the epochs are exhausted: loss and accuracy on the test set
Test ==
    /\ pc = "for_i"
    /\ i >= num_epochs
    /\ \E ok \in BOOLEAN :
         IF ok
         THEN /\ log' = Append(log, TestEntry(TRUE))
              /\ pc' = "close"
              /\ UNCHANGED <<i, start, closed>>
         ELSE Raise(TestEntry(FALSE))
    /\ UNCHANGED <<num_epochs, batch_size, len_train, inceptionVars, graphVars>>

\* sess.close()
Close ==
    /\ pc = "close"
    /\ log' = Append(log, Entry("close", -1, "", "", <<>>, <<>>, TRUE))
    /\ closed' = TRUE
    /\ pc' = "done"
    /\ UNCHANGED <<i, start, num_epochs, batch_size, len_train, inceptionVars, graphVars>>

Next ==
    \/ GlobalVariablesInitializer \/ EpochBegin \/ TrainStep \/ Validate \/ Test \/ Close

Spec == Init /\ [][Next]_vars

---------------------------------------------------------------------------
(* Claims about the session part *)

IsTrain(e) == e.op = "train"

NumBatches == CeilDiv(len_train, batch_size)

\* The train steps of epoch e, in the order they ran.
TrainEntries(e) == SelectSeq(log, LAMBDA x : x.op = "train" /\ x.epoch = e)

\* C5: a run that raises nothing executes num_epochs * ceil(N / batch_size)
\* train steps; the batches of an epoch are the ranges [start, min(start +
\* batch_size, N)) for start = 0, batch_size, ... in increasing order, so each
\* example is fed exactly once per epoch, no batch is empty, only the last
\* batch of an epoch can be short, and images and labels share the range.
C5_Batches ==
    pc = "done" =>
        /\ Len(SelectSeq(log, IsTrain)) = num_epochs * NumBatches
        /\ \A x \in 1..Len(log) : IsTrain(log[x]) => log[x].epoch \in 0..(num_epochs - 1)
        /\ \A e \in 0..(num_epochs - 1) :
              LET b == TrainEntries(e) IN
              /\ Len(b) = NumBatches
              /\ \A k \in 1..Len(b) :
                    /\ b[k].Xsrc = "X_train" /\ b[k].ysrc = "y_train"
                    /\ b[k].X = <<(k - 1) * batch_size, Min(k * batch_size, len_train)>>
                    /\ b[k].y = b[k].X
                    /\ b[k].X[1] < b[k].X[2]
                    /\ k < Len(b) => b[k].X[2] - b[k].X[1] = batch_size
              /\ \A idx \in 0..(len_train - 1) :
                    Cardinality({k \in 1..Len(b) : b[k].X[1] <= idx /\ idx < b[k].X[2]}) = 1

\* A run of two epochs has ended whose training set is not a multiple of the
\* batch size and holds more than one batch.
C5_Witness ==
    /\ pc = "done"
    /\ num_epochs = 2
    /\ batch_size > 1
    /\ len_train > batch_size
    /\ len_train % batch_size # 0

\* What an entry is, apart from the rows of a batch.
Kind(e) == <<e.op, e.epoch, e.Xsrc, e.ysrc>>

Kinds(es) == [k \in 1..Len(es) |-> Kind(es[k])]

EpochKinds(e) ==
    [k \in 1..NumBatches |-> <<"train", e, "X_train", "y_train">>]
        \o << <<"eval", e, "X_validation", "y_validation">> >>

RECURSIVE EpochsKinds(_)
EpochsKinds(e) ==
    IF e >= num_epochs THEN <<>> ELSE EpochKinds(e) \o EpochsKinds(e + 1)

\* The calls of a run that raises nothing, in order.
RunKinds ==
    << <<"init", -1, "", "">> >> \o EpochsKinds(0)
        \o << <<"eval", -1, "X_test", "y_test">>, <<"close", -1, "", "">> >>

IsPrefix(a, b) == Len(a) <= Len(b) /\ SubSeq(b, 1, Len(a)) = a

NoneRaised == \A k \in 1..Len(log) : log[k].ok

\* C6: while nothing raises, the calls made so far are the beginning of:
\* the initialization once, then per epoch its train steps followed by one
\* evaluation on the whole validation set, then one evaluation on the whole
\* test set, then the close; the run has ended exactly when all of them are
\* made, the session is closed exactly then, and nothing runs after the
\* close.  With num_epochs = 0 the calls are initialization, test, close.
C6_Order ==
    NoneRaised =>
        /\ IsPrefix(Kinds(log), RunKinds)
        /\ \A k \in 1..Len(log) : log[k].op = "eval" => log[k].X = <<>> /\ log[k].y = <<>>
        /\ (pc = "done") <=> (Kinds(log) = RunKinds)
        /\ closed <=> (pc = "done")
        /\ pc = "done" => ~ENABLED Next
        /\ (pc = "done" /\ num_epochs = 0) =>
              Kinds(log) = << <<"init", -1, "", "">>, <<"eval", -1, "X_test", "y_test">>,
                              <<"close", -1, "", "">> >>

\* A run of two epochs with at least two batches each has ended.
C6_Witness ==
    /\ pc = "done"
    /\ num_epochs = 2
    /\ NumBatches >= 2
    /\ NoneRaised

\* A run of no epoch has ended: the test evaluation ran on the initialized
\* parameters.
C6_WitnessNoEpoch ==
    /\ pc = "done"
    /\ num_epochs = 0
    /\ len_train > 0

\* C7: once a session call (initialization, train step, validation or test
\* evaluation) has raised, the error has left run(): the raising call is the
\* last call made, no later train step or evaluation runs, nothing is retried
\* and the session is not closed.
C7_NoRecovery ==
    /\ \A k \in 1..Len(log) :
          ~log[k].ok =>
              /\ k = Len(log)
              /\ log[k].op \in {"init", "train", "eval"}
              /\ pc = "raised"
              /\ ~closed
              /\ \A j \in 1..Len(log) : log[j].op # "close"
    /\ pc = "raised" => (~NoneRaised /\ ~ENABLED Next)

\* A train step of the first epoch has raised with batches and an epoch left.
C7_Witness ==
    /\ pc = "raised"
    /\ Len(log) > 1
    /\ ~log[Len(log)].ok
    /\ log[Len(log)].op = "train"
    /\ log[Len(log)].X[2] < len_train
    /\ i + 1 < num_epochs

====
